---- MODULE Spec2Model ----
(***************************************************************************)
(* Model of src/src/components/masonry.js: the MasonryLayout class         *)
(* (constructor, calculateColumnCount, createLayout, handleResize) and the *)
(* throttle wrapper that the constructor puts around handleResize.         *)
(*                                                                         *)
(* JavaScript values are records [t, v]: t is the type tag, v the payload. *)
(* Strings that the code parses or formats (object keys) are sequences of  *)
(* one-character strings, so Number(key) and the property lookup by the    *)
(* re-formatted number are computed, not assumed.                          *)
(* Time is in milliseconds.                                                *)
(***************************************************************************)
EXTENDS Integers, Sequences, FiniteSets, TLC

\* ------------------------------------------------------------------ bounds
NItems == 3

MaxTicks == 4

Burst == 10

MaxLayouts == 3

\* ------------------------------------------------------- program constants
Limit == 200

DefaultCols == 2

\* half a quiescence window: the granularity of the clock
Half == Limit \div 2

\* Date.now() when the page is constructed (any positive instant)
Epoch == 5 * Limit

MaxTime == Epoch + MaxTicks * Half

\* ------------------------------------------------------ JavaScript values
Num(n) == [t |-> "number", v |-> n]

NaN == [t |-> "NaN", v |-> 0]

Undefined == [t |-> "undefined", v |-> 0]

Null == [t |-> "null", v |-> 0]

Str(s) == [t |-> "string", v |-> s]

\* an object is its own enumerable properties in Object.keys order
Obj(props) == [t |-> "object", v |-> props]

Prop(k, x) == [k |-> k, x |-> x]

DefaultKey == <<"d", "e", "f", "a", "u", "l", "t">>

Digits == <<"0", "1", "2", "3", "4", "5", "6", "7", "8", "9">>

IsDigit(c) == \E d \in 1..10 : Digits[d] = c

DigitVal(c) == (CHOOSE d \in 1..10 : Digits[d] = c) - 1

\* a !== b
StrictNotEqual(a, b) ==
  IF a.t # b.t THEN TRUE
  ELSE IF a.t = "NaN" THEN TRUE
  ELSE IF a.t = "number" THEN a.v # b.v
  ELSE FALSE

\* a === b
StrictEqual(a, b) == ~StrictNotEqual(a, b)

\* the truthiness of a scalar (used by `a || b` and `!a`)
Truthy(a) ==
  CASE a.t = "number" -> a.v # 0
    [] a.t = "string" -> Len(a.v) > 0
    [] a.t = "object" -> TRUE
    [] OTHER -> FALSE

\* typeof a === "object" (null included)
TypeofObject(a) == a.t \in {"object", "null"}

RECURSIVE DecimalValue(_)
\* the value of a string of decimal digits
DecimalValue(s) ==
  IF Len(s) = 0 THEN 0
  ELSE 10 * DecimalValue(SubSeq(s, 1, Len(s) - 1)) + DigitVal(s[Len(s)])

\* Number(key) for a property key
NumberOf(s) ==
  IF \A i \in 1..Len(s) : IsDigit(s[i]) THEN Num(DecimalValue(s)) ELSE NaN

RECURSIVE DecimalString(_)
DecimalString(n) ==
  IF n < 10 THEN <<Digits[n + 1]>>
  ELSE Append(DecimalString(n \div 10), Digits[(n % 10) + 1])

\* String(n): the property key a number is converted to by obj[n]
ToPropertyKey(n) ==
  IF n.t = "NaN" THEN <<"N", "a", "N">>
  ELSE IF n.v < 0 THEN <<"-">> \o DecimalString(0 - n.v)
  ELSE DecimalString(n.v)

RECURSIVE LeadingDigits(_)
LeadingDigits(s) ==
  IF Len(s) = 0 \/ ~IsDigit(s[1]) THEN <<>>
  ELSE <<s[1]>> \o LeadingDigits(Tail(s))

\* parseInt(x, 10) of a parsed JSON scalar
ParseInt(x) ==
  CASE x.t = "number" -> x
    [] x.t = "string" ->
         IF LeadingDigits(x.v) = <<>> THEN NaN
         ELSE Num(DecimalValue(LeadingDigits(x.v)))
    [] OTHER -> NaN

\* obj[key]
Get(obj, key) ==
  IF obj.t # "object" THEN Undefined
  ELSE IF \E i \in 1..Len(obj.v) : obj.v[i].k = key
       THEN obj.v[CHOOSE i \in 1..Len(obj.v) : obj.v[i].k = key].x
       ELSE Undefined

\* ------------------------------------------------- configuration inputs
\* the values of data-breakpoint-cols the model constructs a layout from
Attrs ==
  { "undefined", "{oops", "null", "[1,2]", "\"abc\"", "3",
    "{\"default\":0}",
    "{\"100\":1,\"300\":2,\"default\":3}",
    "{\"0100\":1,\"default\":3}" }

\* window.innerWidth values
Widths == {50, 100, 250, 400}

Returned(x) == [threw |-> FALSE, val |-> x]

Thrown == [threw |-> TRUE, val |-> Undefined]

\* JSON.parse(attr); an absent attribute is parsed as the text "undefined"
JSONParse(attr) ==
  CASE attr = "null" -> Returned(Null)
    [] attr = "[1,2]" ->
         Returned(Obj(<<Prop(<<"0">>, Num(1)), Prop(<<"1">>, Num(2))>>))
    [] attr = "\"abc\"" -> Returned(Str(<<"a", "b", "c">>))
    [] attr = "3" -> Returned(Num(3))
    [] attr = "{\"default\":0}" -> Returned(Obj(<<Prop(DefaultKey, Num(0))>>))
    [] attr = "{\"100\":1,\"300\":2,\"default\":3}" ->
         Returned(Obj(<<Prop(<<"1", "0", "0">>, Num(1)),
                        Prop(<<"3", "0", "0">>, Num(2)),
                        Prop(DefaultKey, Num(3))>>))
    [] attr = "{\"0100\":1,\"default\":3}" ->
         Returned(Obj(<<Prop(<<"0", "1", "0", "0">>, Num(1)),
                        Prop(DefaultKey, Num(3))>>))
    [] OTHER -> Thrown

\* the try/catch of the constructor: the table and whether console.error ran
ParseBreakpointCols(attr) ==
  LET r == JSONParse(attr) IN
  IF r.threw
  THEN [table |-> Obj(<<Prop(DefaultKey, Num(DefaultCols))>>), reported |-> TRUE]
  ELSE [table |-> IF TypeofObject(r.val) THEN r.val
                  ELSE Obj(<<Prop(DefaultKey, ParseInt(r.val))>>),
        reported |-> FALSE]

\* ------------------------------------------------- calculateColumnCount
\* Object.keys(obj)
ObjectKeys(obj) == [i \in 1..Len(obj.v) |-> obj.v[i].k]

\* a - b < 0 in the sort comparator (false when either side is NaN)
Before(a, b) == a.t = "number" /\ b.t = "number" /\ a.v < b.v

RECURSIVE InsertAsc(_, _)
InsertAsc(x, s) ==
  IF Len(s) = 0 THEN <<x>>
  ELSE IF Before(x, s[Len(s)])
       THEN Append(InsertAsc(x, SubSeq(s, 1, Len(s) - 1)), s[Len(s)])
       ELSE Append(s, x)

RECURSIVE SortAsc(_)
\* .sort((a, b) => a - b)
SortAsc(s) ==
  IF Len(s) = 0 THEN <<>>
  ELSE InsertAsc(s[Len(s)], SortAsc(SubSeq(s, 1, Len(s) - 1)))

\* Object.keys(...).filter(key !== "default").map(Number).sort(...)
Breakpoints(table) ==
  LET keys == SelectSeq(ObjectKeys(table), LAMBDA k : k # DefaultKey)
  IN SortAsc([i \in 1..Len(keys) |-> NumberOf(keys[i])])

\* windowWidth <= breakpoint
Matches(w, b) == b.t = "number" /\ w <= b.v

RECURSIVE ScanBreakpoints(_, _, _, _)
\* the for loop with its break: the first breakpoint the width fits under
ScanBreakpoints(table, bps, w, matched) ==
  IF Len(bps) = 0 THEN matched
  ELSE IF Matches(w, Head(bps))
       THEN Get(table, ToPropertyKey(Head(bps)))
       ELSE ScanBreakpoints(table, Tail(bps), w, matched)

\* Object.keys(null) throws a TypeError
calculateColumnCount(table, w) ==
  IF TypeofObject(table)
  THEN IF table.t = "null" THEN Thrown
       ELSE Returned(ScanBreakpoints(table, Breakpoints(table), w,
                                     Get(table, DefaultKey)))
  ELSE LET d == Get(table, DefaultKey)
       IN Returned(IF Truthy(d) THEN d ELSE Num(DefaultCols))

\* ----------------------------------------------------------- createLayout
\* Array.from(container.children): item ids in document order
originalItems == [i \in 1..NItems |-> i]

\* the container's content: items that are direct children, and the column
\* elements with the items each holds
Dom(direct, columns) == [direct |-> direct, columns |-> columns]

Without(s, item) == SelectSeq(s, LAMBDA x : x # item)

\* the item put before the column's first child instead of after its last
AppendChildInFront(dom, j, item) ==
  Dom(Without(dom.direct, item),
      [c \in 1..Len(dom.columns) |->
         IF c = j THEN <<item>> \o Without(dom.columns[c], item)
         ELSE Without(dom.columns[c], item)])

\* columns[j].appendChild(item): the item leaves its present parent
AppendChild(dom, j, item) ==
  Dom(Without(dom.direct, item),
      [c \in 1..Len(dom.columns) |->
         IF c = j THEN Append(Without(dom.columns[c], item), item)
         ELSE Without(dom.columns[c], item)])

\* the length Array.from({ length: columnCount }) gives
ToLength(cc) == IF cc.t = "number" /\ cc.v > 0 THEN cc.v ELSE 0

RECURSIVE SumHeights(_, _)
SumHeights(col, h) ==
  IF Len(col) = 0 THEN 0 ELSE h[Head(col)] + SumHeights(Tail(col), h)

\* the column measured by its number of children instead of its height
offsetHeightAsCount(col, h) == Len(col)

\* column.offsetHeight: the stacked heights of the items it holds
offsetHeight(col, h) == SumHeights(col, h)

RECURSIVE ReduceLeastOrEqual(_, _, _)
\* the reduce with `<=` for `<`: among equal columns the last one wins
ReduceLeastOrEqual(m, shortest, current) ==
  IF current > Len(m) THEN shortest
  ELSE ReduceLeastOrEqual(m, IF m[current] <= m[shortest] THEN current
                             ELSE shortest, current + 1)

RECURSIVE ReduceLeast(_, _, _)
\* columns.reduce((shortest, current) => m(current) < m(shortest) ? current
\* : shortest, columns[0]) over the measures m; 0 stands for undefined
ReduceLeast(m, shortest, current) ==
  IF current > Len(m) THEN shortest
  ELSE ReduceLeast(m, IF m[current] < m[shortest] THEN current ELSE shortest,
                   current + 1)

\* the reduce seeded with the last column instead of columns[0]
LeastColumnFromLast(m) ==
  IF Len(m) = 0 THEN 0 ELSE ReduceLeast(m, Len(m), 1)

LeastColumn(m) == IF Len(m) = 0 THEN 0 ELSE ReduceLeast(m, 1, 1)

\* the remainder of the 1-based position instead of the 0-based index
RemainderOfPosition(index, cc) ==
  IF cc.t # "number" \/ cc.v = 0 THEN 0
  ELSE ((index + 1) % (IF cc.v < 0 THEN 0 - cc.v ELSE cc.v)) + 1

\* index % columnCount as a column position; 0 stands for NaN
Remainder(index, cc) ==
  IF cc.t # "number" \/ cc.v = 0 THEN 0
  ELSE (index % (IF cc.v < 0 THEN 0 - cc.v ELSE cc.v)) + 1

\* the branches with horizontalOrder tested before sortByHeight
TargetColumnHorizontalFirst(dom, index, cc, opts, h) ==
  IF opts.horizontalOrder
  THEN LeastColumn([c \in 1..Len(dom.columns) |-> Len(dom.columns[c])])
  ELSE IF opts.sortByHeight
       THEN LeastColumn([c \in 1..Len(dom.columns) |->
                           offsetHeight(dom.columns[c], h)])
       ELSE LET r == Remainder(index, cc)
            IN IF r > Len(dom.columns) THEN 0 ELSE r

\* the column the item at `index` is appended to, 0 when it is undefined
TargetColumn(dom, index, cc, opts, h) ==
  IF opts.sortByHeight
  THEN LeastColumn([c \in 1..Len(dom.columns) |-> offsetHeight(dom.columns[c], h)])
  ELSE IF opts.horizontalOrder
       THEN LeastColumn([c \in 1..Len(dom.columns) |-> Len(dom.columns[c])])
       ELSE LET r == Remainder(index, cc)
            IN IF r > Len(dom.columns) THEN 0 ELSE r

RECURSIVE Distribute(_, _, _, _, _)
\* originalItems.forEach from position `index` (0-based); appendChild on an
\* undefined column throws and leaves the rest where it is
Distribute(dom, index, cc, opts, h) ==
  IF index >= Len(originalItems) THEN [dom |-> dom, threw |-> FALSE]
  ELSE LET j == TargetColumn(dom, index, cc, opts, h) IN
       IF j = 0 THEN [dom |-> dom, threw |-> TRUE]
       ELSE Distribute(AppendChild(dom, j, originalItems[index + 1]),
                       index + 1, cc, opts, h)

\* the reuse branch without `column.innerHTML = ""`
PrepareColumnsKeepsItems(dom, cc) ==
  IF StrictEqual(Num(Len(dom.columns)), cc)
  THEN dom
  ELSE Dom(<<>>, [c \in 1..ToLength(cc) |-> <<>>])

\* the column elements after the reuse-or-rebuild step
PrepareColumns(dom, cc) ==
  IF StrictEqual(Num(Len(dom.columns)), cc)
  THEN Dom(dom.direct, [c \in 1..Len(dom.columns) |-> <<>>])
  ELSE Dom(<<>>, [c \in 1..ToLength(cc) |-> <<>>])

\* the container after createLayout; "initialized" is added only on return
createLayout(dom, cc, opts, h) ==
  LET r == Distribute(PrepareColumns(dom, cc), 0, cc, opts, h)
  IN [dom |-> r.dom, initialized |-> ~r.threw, threw |-> r.threw]

\* ----------------------------------------------------------- handleResize
\* the layout fields after handleResize() under window width w
handleResize(table, w, cc, dom, init, opts, h) ==
  LET new == calculateColumnCount(table, w) IN
  IF new.threw
  THEN [columnCount |-> cc, dom |-> dom, initialized |-> init, threw |-> TRUE]
  ELSE IF StrictNotEqual(new.val, cc)
       THEN LET l == createLayout(dom, new.val, opts, h)
            IN [columnCount |-> new.val, dom |-> l.dom,
                initialized |-> l.initialized, threw |-> l.threw]
       ELSE [columnCount |-> cc, dom |-> dom, initialized |-> init,
             threw |-> FALSE]

\* ------------------------------------------------------------------ state
VARIABLES
  attr,            \* container.dataset.breakpointCols
  masonryOptions,  \* the sortByHeight and horizontalOrder flags
  heights,         \* rendered height of each item
  innerWidth,      \* window.innerWidth
  breakpointCols,  \* this.breakpointCols
  columnCount,     \* this.columnCount
  dom,             \* the container's children
  initialized,     \* container.classList has "initialized"
  listening,       \* the resize listener is registered
  rafPending,      \* the constructor's animation-frame callback is queued
  reported,        \* console.error was called by the constructor
  uncaught,        \* an exception has escaped the constructor or a callback
  now,             \* Date.now()
  lastRan,         \* throttle's lastRan; 0 while it is undefined
  lastFunc,        \* throttle's pending timeout
  timers,          \* the timeouts set and neither run nor cleared
  layouts,         \* createLayout calls that returned, up to MaxLayouts
  handledAt,       \* history: the instant func last ran through the wrapper
  tooSoon,         \* history: func ran twice less than Limit apart
  leadPending,     \* history: a window's first signal still awaits func
  burst            \* history: the current run of signals within one window

vars ==
  <<attr, masonryOptions, heights, innerWidth, breakpointCols, columnCount,
    dom, initialized, listening, rafPending, reported, uncaught, now, lastRan,
    lastFunc, timers, layouts, handledAt, tooSoon, leadPending, burst>>

config == <<attr, masonryOptions, heights, breakpointCols, listening, reported>>

layout == <<columnCount, dom, initialized>>

history == <<handledAt, tooSoon, leadPending, burst>>

NoTimer == [pending |-> FALSE, now |-> 0, at |-> 0]

NoBurst == [start |-> 0, n |-> 0, imm |-> 0, trail |-> 0, trailW |-> 0]

Options == [sortByHeight : BOOLEAN, horizontalOrder : BOOLEAN]

\* item heights matter to the sortByHeight strategy only
HeightProfiles(opts) ==
  IF opts.sortByHeight
  THEN {[i \in 1..NItems |-> 1], [i \in 1..NItems |-> IF i = 1 THEN 3 ELSE 1],
        [i \in 1..NItems |-> i]}
  ELSE {[i \in 1..NItems |-> 1]}

\* the state the constructor leaves
Init ==
  /\ attr \in Attrs
  /\ innerWidth \in Widths
  /\ masonryOptions \in Options
  /\ heights \in HeightProfiles(masonryOptions)
  /\ breakpointCols = ParseBreakpointCols(attr).table
  /\ reported = ParseBreakpointCols(attr).reported
  /\ LET c == calculateColumnCount(breakpointCols, innerWidth) IN
       /\ columnCount = c.val
       /\ listening = ~c.threw
       /\ rafPending = ~c.threw
       /\ uncaught = c.threw
  /\ dom = Dom(originalItems, <<>>)
  /\ initialized = FALSE
  /\ now = Epoch
  /\ lastRan = 0
  /\ lastFunc = NoTimer
  /\ timers = {}
  /\ layouts = 0
  /\ handledAt = 0
  /\ tooSoon = FALSE
  /\ leadPending = FALSE
  /\ burst = NoBurst

Min(a, b) == IF a < b THEN a ELSE b

Max(a, b) == IF a > b THEN a ELSE b

\* func.apply(this, args): handleResize runs; what it leaves behind
Ran == handleResize(breakpointCols, innerWidth', columnCount, dom,
                    initialized, masonryOptions, heights)

\* one more createLayout call has returned
Counted(done) == IF done THEN Min(layouts + 1, MaxLayouts) ELSE layouts

Invoke ==
  /\ columnCount' = Ran.columnCount
  /\ dom' = Ran.dom
  /\ initialized' = Ran.initialized
  /\ uncaught' = (uncaught \/ Ran.threw)
  /\ layouts' = Counted(~Ran.threw /\ StrictNotEqual(Ran.columnCount,
                                                     columnCount))

\* clearTimeout(handle) with the handle ignored
ClearTimeoutIgnored(queue, handle) == queue

\* clearTimeout(handle): the timeout will not run
ClearTimeout(queue, handle) == queue \ {handle}

\* the timeout a throttled call leaves pending; a delay below 0 is due at once
Scheduled(t, ran) ==
  [pending |-> TRUE, now |-> t, at |-> t + Max(0, Limit - (t - ran))]

\* the check made with the time the callback runs at
TimerRunsAtCallback(timer, ran) == now - ran >= Limit

\* whether the timeout's callback calls func
TimerRuns(timer, ran) == timer.now - ran >= Limit

\* a resize event: the width changes and the throttled handler is called
Resize(w) ==
  /\ innerWidth' = w
  /\ UNCHANGED <<config, rafPending, now>>
  /\ IF ~listening
     THEN UNCHANGED <<layout, uncaught, lastRan, lastFunc, timers, layouts>>
     ELSE IF lastRan = 0
          THEN /\ Invoke
               /\ lastRan' = IF Ran.threw THEN lastRan ELSE now
               /\ UNCHANGED <<lastFunc, timers>>
          ELSE /\ lastFunc' = Scheduled(now, lastRan)
               /\ timers' = ClearTimeout(timers, lastFunc) \cup {lastFunc'}
               /\ UNCHANGED <<layout, uncaught, lastRan, layouts>>

\* a pending timeout's callback runs, at or after its due time
TimerFire ==
  \E timer \in timers :
    /\ now >= timer.at
    /\ timers' = timers \ {timer}
    /\ lastFunc' = IF timer = lastFunc THEN NoTimer ELSE lastFunc
    /\ UNCHANGED <<config, innerWidth, rafPending, now>>
    /\ IF TimerRuns(timer, lastRan)
       THEN /\ Invoke
            /\ lastRan' = IF Ran.threw THEN lastRan ELSE timer.now
       ELSE UNCHANGED <<layout, uncaught, lastRan, layouts>>

\* the timeout whose callback runs in this step
Fired == CHOOSE timer \in timers : timer \notin timers'

\* requestAnimationFrame(() => this.createLayout())
AnimationFrame ==
  /\ rafPending
  /\ rafPending' = FALSE
  /\ LET l == createLayout(dom, columnCount, masonryOptions, heights) IN
       /\ dom' = l.dom
       /\ initialized' = l.initialized
       /\ uncaught' = (uncaught \/ l.threw)
       /\ layouts' = Counted(~l.threw)
  /\ UNCHANGED <<config, innerWidth, columnCount, now, lastRan, lastFunc,
                 timers>>

\* time passes; nothing obliges a due timeout to run first
Tick ==
  /\ now + Half <= MaxTime
  /\ now' = now + Half
  /\ UNCHANGED <<config, innerWidth, layout, rafPending, uncaught, lastRan,
                 lastFunc, timers, layouts>>

Next ==
  \/ \E w \in Widths : Resize(w) /\ UNCHANGED history
  \/ TimerFire /\ UNCHANGED history
  \/ AnimationFrame /\ UNCHANGED history
  \/ Tick /\ UNCHANGED history

Spec == Init /\ [][Next]_vars

\* ------------------------------------------------ the wrapper, observed
\* The same steps with the history of the throttled wrapper recorded: when
\* func ran, and the run of signals that falls within one window.

\* func ran in this step
Observed ==
  /\ handledAt' = now
  /\ tooSoon' = (tooSoon \/ (handledAt # 0 /\ now - handledAt < Limit))
  /\ leadPending' = FALSE

\* the run of signals this signal belongs to
BurstAfterSignal(sync) ==
  IF burst.n = 0 \/ now - burst.start >= Limit
  THEN [start |-> now, n |-> 1, imm |-> IF sync THEN 1 ELSE 0, trail |-> 0,
        trailW |-> 0]
  ELSE [burst EXCEPT !.n = Min(burst.n + 1, Burst + 1),
                     !.imm = Min(burst.imm + (IF sync THEN 1 ELSE 0), 2)]

ResizeObserved ==
  IF ~listening THEN UNCHANGED history
  ELSE IF lastRan = 0
       THEN Observed /\ burst' = BurstAfterSignal(TRUE)
       ELSE /\ leadPending' =
                 (leadPending \/ handledAt = 0 \/ now - handledAt >= Limit)
            /\ burst' = BurstAfterSignal(FALSE)
            /\ UNCHANGED <<handledAt, tooSoon>>

TimerObserved ==
  IF TimerRuns(Fired, lastRan)
  THEN /\ Observed
       /\ burst' = [burst EXCEPT !.trail = Min(burst.trail + 1, 2),
                                 !.trailW = innerWidth]
  ELSE UNCHANGED history

\* one layout under the sequential strategy: the wrapper does not depend on
\* the strategy
InitObserved ==
  /\ Init
  /\ ~masonryOptions.sortByHeight
  /\ ~masonryOptions.horizontalOrder

NextObserved ==
  \/ \E w \in Widths : Resize(w) /\ ResizeObserved
  \/ TimerFire /\ TimerObserved
  \/ AnimationFrame /\ UNCHANGED history
  \/ Tick /\ UNCHANGED history

SpecObserved == InitObserved /\ [][NextObserved]_vars

\* ----------------------------------------------------------------- claims
\* what the width resolves to under the table the layout holds
Resolved == calculateColumnCount(breakpointCols, innerWidth).val

\* C1: once the signals have ceased and no throttle timeout is pending, the
\* layout's columnCount is the count resolved from the most recent width.
C1_FinalStateReflectsLastWidth ==
  (listening /\ ~lastFunc.pending) => columnCount = Resolved

\* C2: a run of Burst signals within one window, followed by silence (no
\* timeout left pending), gets exactly one immediate handling and at most one
\* trailing handling, and the trailing handling uses the width of the last
\* signal of the run. Stated for the runs in which no exception has escaped.
C2_BurstHandledOnce ==
  (burst.n = Burst /\ ~lastFunc.pending /\ ~uncaught) =>
     /\ burst.imm = 1
     /\ burst.trail <= 1
     /\ burst.trail = 1 => burst.trailW = innerWidth

\* C3: the first signal of a window (no handling during the Limit ms before
\* it) is handled before any later signal is processed: no signal arrives
\* while such a signal still awaits its handling. Stated for the runs in
\* which no exception has escaped.
C3_LeadingEdge ==
  [][((\E w \in Widths : Resize(w)) /\ listening /\ ~uncaught)
       => ~leadPending]_vars

\* C4: any two runs of handleResize made through the throttled wrapper are at
\* least Limit ms apart. Stated for the runs in which no exception has escaped.
C4_OncePerWindow == ~uncaught => ~tooSoon

\* the numbers the table's keys other than "default" denote
Thresholds(table) ==
  {NumberOf(table.v[i].k).v :
     i \in {j \in 1..Len(table.v) : /\ table.v[j].k # DefaultKey
                                    /\ NumberOf(table.v[j].k).t = "number"}}

\* the column count the table gives for the threshold t
CountAt(table, t) ==
  table.v[CHOOSE i \in 1..Len(table.v) :
            table.v[i].k # DefaultKey /\ NumberOf(table.v[i].k) = Num(t)].x

\* the resolution the specification describes
Resolve(table, w) ==
  LET fit == {t \in Thresholds(table) : w <= t} IN
  IF fit = {} THEN Get(table, DefaultKey)
  ELSE CountAt(table, CHOOSE t \in fit : \A u \in fit : t <= u)

\* C5: for every width and every table, calculateColumnCount gives the count
\* of the smallest threshold t with width <= t, and the table's default when
\* the width exceeds every threshold or there is none.
C5_SmallestThresholdWins ==
  listening => Resolved = Resolve(breakpointCols, innerWidth)

\* C6: for every table the constructor accepts, this.columnCount is a
\* positive integer, and it is the table's default whenever the width
\* exceeds every threshold.
C6_PositiveColumnCount ==
  listening =>
     /\ columnCount.t = "number" /\ columnCount.v >= 1
     /\ (\A t \in Thresholds(breakpointCols) : innerWidth > t)
          => Resolved = Get(breakpointCols, DefaultKey)

\* attribute values that are absent, not JSON, or JSON but not a mapping
MalformedAttrs == {"undefined", "{oops", "null", "[1,2]", "\"abc\""}

\* C7: every malformed breakpoint configuration yields the fallback table
\* {default: 2} and a reported diagnostic, and never an exception that
\* escapes the constructor or a later column-count resolution.
C7_MalformedFallsBack ==
  attr \in MalformedAttrs =>
     /\ breakpointCols = Obj(<<Prop(DefaultKey, Num(DefaultCols))>>)
     /\ reported
     /\ ~uncaught

\* the table's default is a number that is not positive
NonPositiveDefault ==
  LET d == Get(breakpointCols, DefaultKey) IN d.t = "number" /\ d.v <= 0

\* C8: a configuration with a non-positive default is rejected by the
\* constructor, so no listener is registered, no layout is queued, and
\* createLayout never runs with a columnCount of 0.
C8_NonPositiveRejected ==
  NonPositiveDefault => (~listening /\ ~rafPending /\ uncaught)

\* the columns that hold the item
Holders(item) ==
  {c \in 1..Len(dom.columns) :
     \E p \in 1..Len(dom.columns[c]) : dom.columns[c][p] = item}

\* C9: after every completed layout every original item is in exactly one
\* column, exactly once, nothing else is in a column or left outside one,
\* and each column keeps its items in their original order.
C9_EveryItemInOneColumn ==
  initialized =>
     /\ \A item \in 1..NItems : Cardinality(Holders(item)) = 1
     /\ dom.direct = <<>>
     /\ \A c \in 1..Len(dom.columns) :
          \A p, q \in 1..Len(dom.columns[c]) :
            p < q => dom.columns[c][p] < dom.columns[c][q]

\* a layout in two columns completed under the height strategy after the
\* initial layout and after resizes handled both at once and by a timeout,
\* with the tall first item alone in its column
C9_Witness ==
  /\ initialized
  /\ ~rafPending
  /\ lastRan > Epoch
  /\ masonryOptions.sortByHeight
  /\ heights[1] > heights[2]
  /\ columnCount = Num(2)
  /\ dom.columns = <<<<1>>, SubSeq(originalItems, 2, NItems)>>

\* func runs in this step: the first call, or a timeout that passes its check
Handled ==
  \/ (\E w \in Widths : Resize(w)) /\ listening /\ lastRan = 0
  \/ TimerFire /\ TimerRuns(Fired, lastRan)

\* C10: a handled signal redistributes if and only if the newly resolved
\* column count differs from this.columnCount: then columnCount is updated
\* and the container holds a layout built from the original item list alone;
\* otherwise columnCount and the container's content stay as they are.
C10_RedistributeIffChanged ==
  [][Handled =>
       LET new == calculateColumnCount(breakpointCols, innerWidth').val IN
       IF new # columnCount
       THEN /\ columnCount' = new
            /\ dom' = createLayout(Dom(originalItems, <<>>), new,
                                   masonryOptions, heights).dom
       ELSE UNCHANGED <<columnCount, dom, initialized>>]_vars

\* ------------------------------------------------- placement strategies
\* the column that holds the item, 0 when none does
ColumnOf(item) ==
  IF Holders(item) = {} THEN 0 ELSE CHOOSE c \in Holders(item) : TRUE

\* a layout has completed with a column count of at least 1
Completed == initialized /\ columnCount.t = "number" /\ columnCount.v >= 1

\* every item at original index i (item i + 1) is in column i mod columnCount
RoundRobin ==
  \A item \in 1..NItems : ColumnOf(item) = ((item - 1) % columnCount.v) + 1

\* the items of column c that come before the item in the original order
EarlierIn(c, item) ==
  {p \in 1..Len(dom.columns[c]) : dom.columns[c][p] < item}

CountBefore(c, item) == Cardinality(EarlierIn(c, item))

RECURSIVE HeightOf(_, _)
HeightOf(c, ps) ==
  IF ps = {} THEN 0
  ELSE LET p == CHOOSE q \in ps : TRUE
       IN heights[dom.columns[c][p]] + HeightOf(c, ps \ {p})

HeightBefore(c, item) == HeightOf(c, EarlierIn(c, item))

\* every item is in the lowest-numbered column whose measure, taken over the
\* items placed before it, was least
Greedy(measure(_, _)) ==
  \A item \in 1..NItems :
    LET c == ColumnOf(item) IN
    /\ c # 0
    /\ \A d \in 1..Len(dom.columns) :
         /\ measure(c, item) <= measure(d, item)
         /\ d < c => measure(c, item) < measure(d, item)

\* C11: under the sequential strategy (neither flag set) the item at original
\* index i is in column i mod columnCount after every completed layout.
C11_SequentialRoundRobin ==
  (initialized /\ ~masonryOptions.sortByHeight
               /\ ~masonryOptions.horizontalOrder)
    => (Completed /\ RoundRobin)

\* a sequential layout in two columns in which the third item wraps around
C11_Witness ==
  /\ initialized
  /\ ~masonryOptions.sortByHeight /\ ~masonryOptions.horizontalOrder
  /\ columnCount = Num(2)
  /\ ColumnOf(1) = 1 /\ ColumnOf(2) = 2 /\ ColumnOf(3) = 1

\* C12: under the fewest-items strategy (horizontalOrder) every item is in the
\* column that held the fewest items when it was placed, the lowest-numbered
\* one among equals, and the column sizes differ by at most 1 at completion.
C12_FewestItemsBalanced ==
  (initialized /\ masonryOptions.horizontalOrder
               /\ ~masonryOptions.sortByHeight)
    => /\ Completed
       /\ Greedy(CountBefore)
       /\ \A c, d \in 1..Len(dom.columns) :
            Len(dom.columns[c]) - Len(dom.columns[d]) <= 1

\* a fewest-items layout in two columns of unequal size
C12_Witness ==
  /\ initialized
  /\ masonryOptions.horizontalOrder /\ ~masonryOptions.sortByHeight
  /\ columnCount = Num(2)
  /\ Len(dom.columns[1]) = Len(dom.columns[2]) + 1

\* C13: under the shortest-height strategy (sortByHeight) every item is in the
\* column whose accumulated height was smallest when it was placed, the
\* lowest-numbered one among equals.
C13_ShortestHeightGreedy ==
  (initialized /\ masonryOptions.sortByHeight)
    => (Completed /\ Greedy(HeightBefore))

\* a height layout that round-robin would not give: the tall first item
\* alone, the second and third stacked beside it
C13_Witness ==
  /\ initialized
  /\ masonryOptions.sortByHeight /\ ~masonryOptions.horizontalOrder
  /\ heights[1] > heights[2] + heights[3]
  /\ columnCount = Num(2)
  /\ ColumnOf(1) = 1 /\ ColumnOf(2) = 2 /\ ColumnOf(3) = 2

\* C14: the flags select the strategy: sortByHeight selects shortest-height,
\* otherwise horizontalOrder selects fewest-items, otherwise sequential; with
\* both flags set sortByHeight wins.
C14_StrategySelection ==
  initialized =>
    /\ Completed
    /\ IF masonryOptions.sortByHeight THEN Greedy(HeightBefore)
       ELSE IF masonryOptions.horizontalOrder THEN Greedy(CountBefore)
       ELSE RoundRobin

\* both flags set, and a layout that is the height placement and not the
\* fewest-items one
C14_Witness ==
  /\ initialized
  /\ masonryOptions.sortByHeight /\ masonryOptions.horizontalOrder
  /\ columnCount = Num(2)
  /\ Greedy(HeightBefore)
  /\ ~Greedy(CountBefore)

\* the layout a first createLayout gives for the present inputs
FirstLayout ==
  createLayout(Dom(originalItems, <<>>), columnCount, masonryOptions,
               heights).dom

\* C15: a completed layout depends on the item list, columnCount, strategy
\* and heights alone: whatever layouts came before, the container holds what
\* a first-time layout with these inputs gives.
C15_CleanRebuild == initialized => dom = FirstLayout

\* three layouts at least have completed, the last of them in a single
\* column
C15_Witness ==
  /\ initialized
  /\ layouts = MaxLayouts
  /\ masonryOptions.horizontalOrder
  /\ columnCount = Num(1)

\* C18: the fewest-items strategy gives the assignment of the sequential
\* strategy: item i in column i mod columnCount.
C18_FewestItemsIsSequential ==
  (initialized /\ masonryOptions.horizontalOrder
               /\ ~masonryOptions.sortByHeight)
    => (Completed /\ RoundRobin)

\* a fewest-items layout with one item in each of three columns
C18_Witness ==
  /\ initialized
  /\ masonryOptions.horizontalOrder /\ ~masonryOptions.sortByHeight
  /\ columnCount = Num(3)
  /\ \A c \in 1..3 : Len(dom.columns[c]) >= 1

\* ------------------------------------------------------ trailing timeouts
\* C16: in every reachable state at most one timeout of the wrapper is
\* pending, and it is the one the latest throttled call scheduled: a timeout
\* that was superseded is no longer there to run.
C16_OneTrailingTimer ==
  /\ Cardinality(timers) <= 1
  /\ timers \subseteq {lastFunc}

\* three signals at one instant: the first ran func, the second set a
\* timeout, the third replaced it
C16_Witness ==
  /\ burst.n >= 3
  /\ burst.start = now
  /\ burst.imm = 1
  /\ timers = {Scheduled(now, lastRan)}

\* the callback of a timeout runs in this step
TimeoutRan == timers' # timers /\ timers' \subseteq timers

\* C17: a timeout's callback calls the handler only if the signal that
\* scheduled it arrived at least Limit after lastRan; the check is on the
\* arrival time, so a timeout scheduled inside the window runs without the
\* handler being called, and one scheduled outside it calls the handler and
\* moves lastRan to that arrival time.
C17_TimerChecksArrivalTime ==
  [][TimeoutRan =>
       IF Fired.now - lastRan >= Limit
       THEN /\ columnCount' = Ran.columnCount
            /\ dom' = Ran.dom
            /\ initialized' = Ran.initialized
            /\ lastRan' = IF Ran.threw THEN lastRan ELSE Fired.now
       ELSE UNCHANGED <<layout, uncaught, lastRan>>]_vars

\* a timeout scheduled inside the window has run and left the last width
\* unapplied: nothing is pending and columnCount is not the resolved count
C17_Witness ==
  /\ listening
  /\ ~uncaught
  /\ lastRan # 0
  /\ timers = {}
  /\ now >= lastRan + Limit
  /\ columnCount # Resolved

\* ------------------------------------------------ layout and column count
\* C19: however the initial animation-frame layout interleaves with resizes
\* and timeouts, in every state after the first createLayout has completed
\* the container holds exactly columnCount column elements and is
\* initialized.
C19_ColumnsMatchCount ==
  layouts >= 1 =>
    /\ initialized
    /\ StrictEqual(Num(Len(dom.columns)), columnCount)

====
